---- MODULE Spec2Model ----
(***************************************************************************)
(* A model of the MCTS engine of agentq (src/agentq/core/mcts/core/mcts.py) *)
(* driven by the browser world model and search configuration of           *)
(* src/agentq/core/mcts/mcts_data.py.                                       *)
(*                                                                         *)
(* Conventions.                                                            *)
(*  - Python's None is the empty sequence, a present value x is <<x>>, so   *)
(*    that "children is None" and "children == []" stay different.          *)
(*  - A node is named by its index in the sequence nodes; the root is 1 and *)
(*    parent 0 stands for "no parent".                                      *)
(*  - Rewards are integers in units of 0.01: 1.0 is 100, -0.01 is -1, the   *)
(*    dead-branch fast_reward -1 is -100.                                   *)
(*  - Q is an exact rational <<numerator, denominator>> in the same unit.   *)
(*  - The outcomes of the external collaborators (world_model.step, the     *)
(*    Actor/Critic/Vision oracles behind get_actions and reward) are chosen *)
(*    nondeterministically.                                                 *)
(***************************************************************************)
EXTENDS Integers, Sequences, FiniteSets, TLC

(* ------------------------------ bounds --------------------------------- *)
\* largest n_iters a run is configured with
MaxIters == 3
\* largest depth_limit a run is configured with
MaxDepthLimit == 2
\* largest number of candidate tasks get_actions returns
MaxActions == 2
\* largest number of nested _select calls (the call inside the except handler)
MaxRecursion == 2
\* the deep configuration: its depth_limit, and its largest n_iters
DeepDepthLimit == 3
DeepIters == 2
\* largest number of elementary sub-actions of one task
MaxSubActions == 2
\* longest winning path handed to generate_dpo_pairs, in nodes
MaxTrace == 3

(* ---------------------------- option values ---------------------------- *)
None == <<>>
Some(x) == <<x>>
Val(o) == o[1]

(* ------------------------- program constants --------------------------- *)
\* reward() on a terminal state: 1.0
RewardTerminal == 100
\* reward() on a non-terminal state: -0.01
RewardStep == -1
\* fast_reward of a node whose materialization failed: -1
FastRewardDead == -100
\* fast_reward default of MCTSNode.__init__ (the root): 0.0
FastRewardDefault == 0
\* node.N = 1000 in the failure handler of _select
SelectFailN == 1000
\* -math.inf
NegInf == -1000000
\* the rollout stops at a node with this many children of negative fast_reward
NegativeChildrenAbort == 3
\* retry_action(action_func, retries=3): attempts per elementary sub-action
Retries == 3
\* retry_get_dom / retry_get_url / retry_screenshot (retries=3)
ObserveRetries == 3
\* matching scores (ranks) the Vision oracle hands out, in units of 0.01
Ranks == {50, 90}
TopRank == CHOOSE r \in Ranks : \A q \in Ranks : q <= r

root == 1

(* ------------------------------ rationals ------------------------------ *)
Abs(x) == IF x < 0 THEN -x ELSE x

RECURSIVE GCD(_, _)
GCD(a, b) == IF b = 0 THEN a ELSE GCD(b, a % b)

Norm(q) ==
  LET g == GCD(Abs(q[1]), q[2])
  IN  IF g = 0 THEN <<0, 1>> ELSE <<q[1] \div g, q[2] \div g>>

Zero == <<0, 1>>

(* ------------------------------- MCTSNode ------------------------------ *)
\* MCTSNode.__init__: reward starts as fast_reward, children None, N = 0, _Q = 0
MCTSNode(T, state, action, parent, fast_reward) ==
  [state       |-> state,
   action      |-> action,
   parent      |-> parent,
   children    |-> None,
   N           |-> 0,
   Qval        |-> Zero,
   fast_reward |-> fast_reward,
   reward      |-> fast_reward,
   is_terminal |-> FALSE,
   depth       |-> IF parent = 0 THEN 0 ELSE T[parent].depth + 1]

\* the Q property: 0 while N == 0, the stored _Q otherwise
Q(node) == IF node.N = 0 THEN Zero ELSE node.Qval

(* ------------------------------- state --------------------------------- *)
VARIABLES
  nodes,        \* every MCTSNode created so far, by id
  n_iters,      \* MCTS.n_iters
  depth_limit,  \* MCTS.depth_limit
  iter,         \* number of iterations of the loop of search() completed
  pc,           \* where the run is: "loop", "select", "expand", "simulate",
                \* "backprop", "done", "aborted"
  stack,        \* the active _select calls, innermost last: their locals
  path,         \* the path of the running iterate()
  sim_node,     \* the local `node` of _simulate
  err,          \* the exception that escaped, "none" while there is none
  result,       \* what search() and __call__ extract from the final tree
  last_expand,  \* history: the latest _expand call and the oracle outcomes it consumed
  hist,         \* history, per node: the backpropagated paths it was part of
  mat_iter,     \* history: the running iteration materialized a state at depth >= 1
  mat_iters,    \* history: number of completed iterations that did so
  failed,       \* history: nodes whose materialization in _expand raised in step
  browser,      \* the external browser: the tasks executed since it was last
                \* at the home page, oldest first
  trace_in_each_iter,  \* MCTS.trace_in_each_iter: the retained copies of paths
  homepage_resets,     \* history: number of go_to_homepage calls of search()
  oracle_log,   \* history: what the collaborators did in the _expand calls of
                \* the running (or just completed) iteration
  wm,           \* one call of BrowserWorldModel.step, sub-action by sub-action
  dpo           \* one call of BrowserMCTSWrapper.generate_dpo_pairs

\* the variables of the search engine
mcts_vars == <<nodes, n_iters, depth_limit, iter, pc, stack, path, sim_node, err,
               result, last_expand, hist, mat_iter, mat_iters, failed, browser,
               trace_in_each_iter, homepage_resets, oracle_log>>

vars == <<nodes, n_iters, depth_limit, iter, pc, stack, path, sim_node, err,
          result, last_expand, hist, mat_iter, mat_iters, failed, browser,
          trace_in_each_iter, homepage_resets, oracle_log, wm, dpo>>

(* ------------------------------ sequences ------------------------------ *)
Last(s) == s[Len(s)]

Min(S) == CHOOSE x \in S : \A y \in S : x <= y

\* the last index of a largest element
ArgMaxLast(s) ==
  CHOOSE i \in 1..Len(s) :
    /\ \A j \in 1..Len(s) : s[j] <= s[i]
    /\ \A j \in (i + 1)..Len(s) : s[j] < s[i]

\* the first index of a largest element: max(..., key=...) and np.argmax
ArgMaxFirst(s) ==
  Min({i \in 1..Len(s) : \A j \in 1..Len(s) : s[j] <= s[i]})

\* sequences over S of length 0..n, non-increasing (sorted by rank, descending)
SortedSeqs(S, n) ==
  {s \in UNION {[1..k -> S] : k \in 0..n} :
     \A i \in 1..(Len(s) - 1) : s[i] >= s[i + 1]}

(* ------------------------- depth limit, UCT ---------------------------- *)
\* the depth limit ignored: only a terminal node ends a walk
_is_terminal_only(node) == node.is_terminal

\* the depth limit applied one level early
_is_terminal_one_level_early(node) ==
  node.is_terminal \/ node.depth + 1 >= depth_limit

_is_terminal_with_depth_limit(node) ==
  node.is_terminal \/ node.depth >= depth_limit

\* the largest r in lo..hi with r * r <= x
RECURSIVE IsqrtIn(_, _, _)
IsqrtIn(x, lo, hi) ==
  IF lo >= hi THEN lo
  ELSE LET mid == (lo + hi + 1) \div 2
       IN  IF mid * mid <= x THEN IsqrtIn(x, mid, hi) ELSE IsqrtIn(x, lo, mid - 1)

\* floor(sqrt(x)) for 0 <= x < 2^31
Isqrt(x) == IsqrtIn(x, 0, 46340)

\* math.log(n) in units of 0.0001, n >= 1
RECURSIVE LnE4(_)
LnE4(n) ==
  IF n <= 16
  THEN <<0, 6931, 10986, 13863, 16094, 17918, 19459, 20794,
         21972, 23026, 23979, 24849, 25649, 26391, 27081, 27726>>[n]
  ELSE IF n >= 1000 /\ n <= 1100 THEN 69078 + 10 * (n - 1000)
  ELSE LnE4(n \div 2) + 6931

\* _uct with w_exp = 1.0, in units of 0.0001:
\*   Q + w_exp * sqrt(log(parent.N) / (1 + N))
_uct(T, c) ==
  LET q == Q(T[c])
  IN  ((q[1] * 100) \div q[2])
        + Isqrt((LnE4(T[T[c].parent].N) * 10000) \div (1 + T[c].N))

\* _uct_select without its unvisited-first loop: the child of largest UCT score
\* (the exploration term left out where log(parent.N) is undefined)
_uct_select_no_unvisited_first(T, n) ==
  LET ch == Val(T[n].children)
      score(c) == IF T[n].N = 0 THEN (Q(T[c])[1] * 100) \div Q(T[c])[2]
                  ELSE _uct(T, c)
  IN  ch[ArgMaxFirst([i \in 1..Len(ch) |-> score(ch[i])])]

\* _uct_select whose max() keeps the last of several children of largest UCT
_uct_select_last_on_ties(T, n) ==
  LET ch == Val(T[n].children)
      unvisited == {i \in 1..Len(ch) : T[ch[i]].N = 0}
      best == {i \in 1..Len(ch) :
                 \A j \in 1..Len(ch) : _uct(T, ch[j]) <= _uct(T, ch[i])}
  IN  IF unvisited # {} THEN ch[Min(unvisited)]
      ELSE ch[CHOOSE i \in best : \A j \in best : j <= i]

\* first the unvisited children in list order, else the child of largest UCT
_uct_select(T, n) ==
  LET ch == Val(T[n].children)
      unvisited == {i \in 1..Len(ch) : T[ch[i]].N = 0}
  IN  IF unvisited # {} THEN ch[Min(unvisited)]
      ELSE ch[ArgMaxFirst([i \in 1..Len(ch) |-> _uct(T, ch[i])])]

\* _uct_select raises (math domain error) when it reaches the UCT formula at N == 0
UctSelectRaises(T, n) ==
  LET ch == Val(T[n].children)
  IN  (\A i \in 1..Len(ch) : T[ch[i]].N # 0) /\ T[n].N = 0

(* --------------------- world model and search config ------------------- *)
\* A BrowserState, reduced to its completed_tasks, done_objective and
\* done_description; BrowserWorldModel.init_state
init_state ==
  [completed_tasks |-> <<>>, done_objective |-> "objective",
   done_description |-> ""]

\* BrowserWorldModel.step when execute_browser_action succeeds: a new state whose
\* completed_tasks is a new list, the parent's plus the executed task; the
\* other two fields are taken over from the parent's state
step(state, action) ==
  [completed_tasks  |-> Append(state.completed_tasks, action.task),
   done_objective   |-> state.done_objective,
   done_description |-> state.done_description]

\* is_terminal(state, vision, critic), called by reward: the Critic's answer is
\* written into the state it was given
is_terminal(state) ==
  [state EXCEPT !.done_objective = "critic", !.done_description = "critic"]

\* what world_model.step can do: return a state, or raise
StepOutcomes == {"ok", "raise"}

\* what search_config.reward can do: the terminal check says yes, says no, or
\* the screenshot or the Critic raises (before anything is written)
RewardOutcomes == {"terminal", "nonterminal", "raise"}

\* BrowserMCTSSearchConfig.reward: (1.0, {}, True) or (-0.01, {}, False)
reward(ro) ==
  IF ro = "terminal"
  THEN [reward |-> RewardTerminal, is_terminal |-> TRUE]
  ELSE [reward |-> RewardStep, is_terminal |-> FALSE]

\* the rank lists _rank_actions hands out in the model: sorted by rank descending
\* (ties allowed), the best candidate scoring TopRank
RankLists ==
  {s \in SortedSeqs(Ranks, MaxActions) : s = <<>> \/ s[1] = TopRank}

\* what search_config.get_actions can do:
\*   "ranked"   the tasks the Actor proposed, ranked and sorted by rank descending
\*              (none when the Actor proposed nothing that got a rank)
\*   "stop"     exactly one task whose single elementary action is a STOPAction
\*   "complete" the Actor signalled is_complete: the proposed tasks are appended
\*              to state.completed_tasks in place and [] is returned
\*   "raise"    the Actor, Critic or Vision oracle raised
GetActionsOutcomes ==
  {[kind |-> "ranked", ranks |-> r, proposed |-> Len(r)] : r \in RankLists}
    \cup {[kind |-> "stop", ranks |-> <<TopRank>>, proposed |-> 1]}
    \cup {[kind |-> "complete", ranks |-> <<>>, proposed |-> 1],
          [kind |-> "raise", ranks |-> <<>>, proposed |-> 0]}

\* an oracle that was not consulted
Skipped == [kind |-> "skipped", ranks |-> <<>>, proposed |-> 0]

\* BrowserMCTSSearchConfig.get_actions: the list it returns and the state it leaves
get_actions(state, ao) ==
  IF ao.kind = "complete"
  THEN [actions |-> <<>>,
        state |-> [state EXCEPT !.completed_tasks =
                      @ \o [i \in 1..ao.proposed |-> i]]]
  ELSE [actions |-> [i \in 1..Len(ao.ranks) |->
                       [task |-> i, rank |-> ao.ranks[i], stop |-> ao.kind = "stop"]],
        state |-> state]

\* BrowserMCTSSearchConfig.fast_reward: action.rank verbatim
fast_reward(state, action) == action.rank

(* ---------------------- BrowserWorldModel.step ------------------------- *)
\* the members of the enum ActionType
ActionType ==
  {"CLICK", "TYPE", "GOTO_URL", "ENTER_TEXT_AND_CLICK", "SOLVE_CAPTCHA", "SCROLL",
   "HOVER", "NEW_TAB", "GO_BACK", "GO_FORWARD", "PAGE_CLOSE", "KEY_PRESS", "STOP"}

\* the types the if/elif chain of execute_browser_action has a branch for
Dispatched ==
  {"GOTO_URL", "TYPE", "CLICK", "ENTER_TEXT_AND_CLICK", "HOVER", "SCROLL",
   "KEY_PRESS", "NEW_TAB", "GO_BACK", "GO_FORWARD", "PAGE_CLOSE"}

\* the elementary actions of the given types; press_syntax says whether the
\* action_str of a KEY_PRESS matches `press ?\[(.+)\]` (TRUE for other types)
ElementaryActions(types) ==
  {a \in [type : types, press_syntax : BOOLEAN] :
     a.type # "KEY_PRESS" => a.press_syntax}

\* the ValueError the dispatch raises for an elementary action before any
\* attempt, "none" when it hands the action to retry_action
Rejection(a) ==
  IF a.type \notin Dispatched THEN "Unknown action type"
  ELSE IF a.type = "KEY_PRESS" /\ ~a.press_syntax THEN "Invalid press action"
  ELSE "none"

\* An elementary sub-action is either one the dispatch of
\* execute_browser_action runs through retry_action ("primitive"), or one it
\* rejects with ValueError before any attempt ("unsupported": a type outside the
\* dispatch such as STOP or SOLVE_CAPTCHA, or a malformed KEY_PRESS string).
SubActionKinds == {"primitive", "unsupported"}

KindOf(a) == IF Rejection(a) = "none" THEN "primitive" ELSE "unsupported"

\* a BrowserAction: a task with its actions_to_be_performed, here clicks and stops
BrowserActions ==
  {[task |-> 1, subs |-> subs] :
     subs \in UNION {[1..k -> ElementaryActions({"CLICK", "STOP"})] :
                       k \in 0..MaxSubActions}}

\* the BrowserActions of one elementary action, of every type
SingleActions ==
  {[task |-> 1, subs |-> <<a>>] : a \in ElementaryActions(ActionType)}

\* the states step is called on
WmStates == {init_state, [init_state EXCEPT !.completed_tasks = <<2>>]}

\* what the browser primitive (or the observation) does on each of its attempts
AttemptOutcomes(retries) == [1..retries -> {"ok", "raise"}]

\* retry_action giving up after the first failed attempt
retry_action_single_attempt(outs, retries) ==
  [ok |-> outs[1] = "ok", attempts |-> 1]

\* retry_action(action_func, retries): attempts in turn, True at the first one
\* that does not raise, False when all of them raised
retry_action(outs, retries) ==
  LET good == {k \in 1..retries : outs[k] = "ok"}
  IN  IF good = {} THEN [ok |-> FALSE, attempts |-> retries]
      ELSE [ok |-> TRUE, attempts |-> Min(good)]

WmIdle ==
  [phase |-> "idle", state |-> init_state, action |-> [task |-> 0, subs |-> <<>>],
   i |-> 1, executed |-> <<>>, tried |-> <<>>, observed |-> <<>>,
   new_state |-> None]

\* step(state, browser_action) entered: the loop over actions_to_be_performed
\* is about to start (the page is taken from the PlaywrightManager)
WmCall(state, action) ==
  [WmIdle EXCEPT !.phase = IF Len(action.subs) = 0 THEN "dom" ELSE "actions",
                 !.state = state, !.action = action]

\* the observation that follows `what`, "returned" after the last one
NextPhase(what) ==
  IF what = "dom" THEN "url" ELSE IF what = "url" THEN "screenshot" ELSE "returned"

\* execute_browser_action: the next elementary sub-action. A sub-action the
\* dispatch rejects, or one whose attempts all failed, raises out of step.
WmSubAction ==
  /\ wm.phase = "actions"
  /\ \E outs \in AttemptOutcomes(Retries) :
       LET a == wm.action.subs[wm.i]
           kind == KindOf(a)
           r == IF kind = "unsupported" THEN [ok |-> FALSE, attempts |-> 0]
                ELSE retry_action(outs, Retries)
           log == Append(wm.tried,
                         [sub |-> wm.i, type |-> a.type, kind |-> kind,
                          error |-> Rejection(a), outs |-> outs,
                          attempts |-> r.attempts, ok |-> r.ok])
       IN  wm' = IF r.ok
                 THEN [wm EXCEPT !.tried = log,
                                 !.executed = Append(@, wm.i),
                                 !.i = @ + 1,
                                 !.phase = IF wm.i = Len(wm.action.subs)
                                           THEN "dom" ELSE "actions"]
                 ELSE [wm EXCEPT !.tried = log, !.phase = "raised"]
  /\ UNCHANGED <<mcts_vars, dpo>>

\* execute_browser_action: retry_get_dom, retry_get_url, retry_screenshot in
\* turn; after the screenshot step builds and returns the new state
WmObserve ==
  /\ wm.phase \in {"dom", "url", "screenshot"}
  /\ \E outs \in AttemptOutcomes(ObserveRetries) :
       LET r == retry_action(outs, ObserveRetries)
           log == Append(wm.observed,
                         [what |-> wm.phase, outs |-> outs,
                          attempts |-> r.attempts, ok |-> r.ok])
       IN  wm' = IF ~r.ok
                 THEN [wm EXCEPT !.observed = log, !.phase = "raised"]
                 ELSE IF NextPhase(wm.phase) = "returned"
                 THEN [wm EXCEPT !.observed = log, !.phase = "returned",
                                 !.new_state = Some(step(wm.state, wm.action))]
                 ELSE [wm EXCEPT !.observed = log, !.phase = NextPhase(wm.phase)]
  /\ UNCHANGED <<mcts_vars, dpo>>

(* ------------------------------- _expand ------------------------------- *)
\* the children _expand creates for the ranked actions, appended to T
WithChildren(T, n, actions) ==
  T \o [i \in 1..Len(actions) |->
          MCTSNode(T, None, Some(actions[i]), n,
                   fast_reward(Val(T[n].state), actions[i]))]

\* the failure branch of _expand with the assignment left out
MarkDeadEnd_forgotten(T, n) == T

\* the failure branch of _expand also taking the node out of its parent's list
MarkDeadEnd_pruning(T, n) ==
  LET p == T[n].parent
      Others(c) == c # n
  IN  [T EXCEPT ![n].fast_reward = FastRewardDead,
                ![p].children = Some(SelectSeq(Val(@), Others))]

\* the failure branch of _expand: node.fast_reward = -1, nothing else
MarkDeadEnd(T, n) == [T EXCEPT ![n].fast_reward = FastRewardDead]

\* `if children: node.children = children`: an empty list is not attached
AttachChildren_if_any(T, n, ids) ==
  IF ids = <<>> THEN T ELSE [T EXCEPT ![n].children = Some(ids)]

\* node.children = children, also when the list is empty
AttachChildren(T, n, ids) == [T EXCEPT ![n].children = Some(ids)]

\* the single-STOP branch of _expand appending the child it builds to `children`
StopBranch_attaching_child(T, n, action, ro2) ==
  LET T1 == [T EXCEPT ![n].state = Some(is_terminal(Val(@))),
                      ![n].reward = reward(ro2).reward,
                      ![n].is_terminal = reward(ro2).is_terminal]
  IN  AttachChildren(
        Append(T1, MCTSNode(T1, None, Some(action), n, T1[n].reward)),
        n, <<Len(T1) + 1>>)

\* the single-STOP branch of _expand when reward returns: the node's own reward
\* and is_terminal are overwritten, the child built from the action is dropped
\* and `children` is assigned the empty list
StopBranch(T, n, action, ro2) ==
  AttachChildren([T EXCEPT ![n].state = Some(is_terminal(Val(@))),
                           ![n].reward = reward(ro2).reward,
                           ![n].is_terminal = reward(ro2).is_terminal],
                 n, <<>>)

\* MCTS._expand(node) on the tree T, given what the collaborators do:
\*   so   world_model.step,            ro   reward after the step,
\*   ao   get_actions,                 ro2  reward in the single-stop branch.
\* Returns the tree it leaves, (flag, result_child) or raised, and what it consumed.
_expand(T, n, so, ro, ao, ro2) ==
  LET node == T[n]
      materialize == node.state = None
      stepped == materialize /\ so = "ok"
      rewarded == stepped /\ ro # "raise"
      \* the try block: the state is assigned before reward is computed
      T1 == IF ~stepped THEN T
            ELSE LET s == Some(step(Val(T[node.parent].state), Val(node.action)))
                 IN  IF ~rewarded THEN [T EXCEPT ![n].state = s]
                     ELSE [T EXCEPT ![n].state = Some(is_terminal(Val(s))),
                                    ![n].reward = reward(ro).reward,
                                    ![n].is_terminal = reward(ro).is_terminal]
      flag == ~materialize \/ rewarded
      used == [node |-> n,
               step |-> IF materialize THEN so ELSE "skipped",
               reward |-> IF stepped THEN ro ELSE "skipped",
               actions |-> Skipped,
               reward2 |-> "skipped"]
  IN
  IF T1[n].is_terminal
  THEN [nodes |-> T1, flag |-> flag, result_child |-> FALSE, raised |-> FALSE,
        used |-> used]
  ELSE IF ~flag
  THEN [nodes |-> MarkDeadEnd(T1, n),
        flag |-> FALSE, result_child |-> FALSE, raised |-> FALSE, used |-> used]
  ELSE IF ao.kind = "raise"
  THEN [nodes |-> T1, flag |-> flag, result_child |-> FALSE, raised |-> TRUE,
        used |-> [used EXCEPT !.actions = ao]]
  ELSE
    LET got == get_actions(Val(T1[n].state), ao)
        T2 == [T1 EXCEPT ![n].state = Some(got.state)]
        used2 == [used EXCEPT !.actions = ao]
    IN
    IF Len(got.actions) = 1 /\ got.actions[1].stop
    THEN \* the child built here is never attached: children stays the empty list
         IF ro2 = "raise"
         THEN [nodes |-> T2, flag |-> flag, result_child |-> FALSE, raised |-> TRUE,
               used |-> [used2 EXCEPT !.reward2 = ro2]]
         ELSE [nodes |-> StopBranch(T2, n, got.actions[1], ro2),
               flag |-> flag, result_child |-> FALSE, raised |-> FALSE,
               used |-> [used2 EXCEPT !.reward2 = ro2]]
    ELSE
      LET T3 == WithChildren(T2, n, got.actions)
      IN  [nodes |-> AttachChildren(T3, n,
                        [i \in 1..Len(got.actions) |-> Len(T2) + i]),
           flag |-> flag, result_child |-> TRUE, raised |-> FALSE, used |-> used2]

(* --------------------------- _back_propagate --------------------------- *)
\* the loop of _back_propagate counting the visit but leaving Q as it was
RECURSIVE BackPropFrom_visits_only(_, _, _, _)
BackPropFrom_visits_only(T, p, i, r) ==
  IF i = 0 THEN T
  ELSE IF T[p[i]].state = None THEN BackPropFrom_visits_only(T, p, i - 1, r)
  ELSE BackPropFrom_visits_only([T EXCEPT ![p[i]].N = @ + 1], p, i - 1, r)

\* one pass of the loop `for node in reversed(path)`, from index i down to 1
RECURSIVE BackPropFrom(_, _, _, _)
BackPropFrom(T, p, i, r) ==
  IF i = 0 THEN T
  ELSE LET n == p[i]
           q == Q(T[n])
       IN  IF T[n].state = None THEN BackPropFrom(T, p, i - 1, r)
           ELSE BackPropFrom(
                  [T EXCEPT ![n].Qval = Norm(<<q[1] * T[n].N + r * q[2],
                                               q[2] * (T[n].N + 1)>>),
                            ![n].N = @ + 1],
                  p, i - 1, r)

\* _back_propagate looping over reversed(path[1:]): the root is left out
_back_propagate_below_root(T, p) ==
  BackPropFrom(T, Tail(p), Len(p) - 1, T[Last(p)].reward)

\* MCTS._back_propagate(path): the tree it leaves
_back_propagate(T, p) == BackPropFrom(T, p, Len(p), T[Last(p)].reward)

(* -------------------------- result extraction -------------------------- *)
\* the children of node n whose state is not None, in list order
RECURSIVE Visited(_, _, _)
Visited(T, ch, i) ==
  IF i > Len(ch) THEN <<>>
  ELSE (IF T[ch[i]].state # None THEN <<ch[i]>> ELSE <<>>) \o Visited(T, ch, i + 1)

visited_children(T, n) == Visited(T, Val(T[n].children), 1)

\* cum_reward = sum over the rewards of the nodes of p
RECURSIVE cum_reward(_, _)
cum_reward(T, p) ==
  IF p = <<>> THEN 0 ELSE T[p[1]].reward + cum_reward(T, Tail(p))

\* the follow-max walk of search(): the nodes collected, and whether the walk
\* raised (TypeError: iterating cur.children when it is None)
RECURSIVE follow_max(_, _, _)
follow_max(T, cur, acc) ==
  LET acc1 == Append(acc, cur)
  IN  IF T[cur].is_terminal THEN [path |-> acc1, raised |-> FALSE]
      ELSE IF T[cur].children = None THEN [path |-> acc1, raised |-> TRUE]
      ELSE LET vc == visited_children(T, cur)
           IN  IF Len(vc) = 0 THEN [path |-> acc1, raised |-> FALSE]
               ELSE follow_max(T,
                      vc[ArgMaxFirst([i \in 1..Len(vc) |-> T[vc[i]].reward])], acc1)

\* _dfs_max_reward descending into the first visited child only, not the best
RECURSIVE _dfs_first_reward(_, _)
_dfs_first_reward(T, p) ==
  LET cur == T[Last(p)]
  IN  IF cur.is_terminal THEN [r |-> cum_reward(T, Tail(p)), path |-> p]
      ELSE IF cur.children = None THEN [r |-> NegInf, path |-> p]
      ELSE LET vc == visited_children(T, Last(p))
           IN  IF Len(vc) = 0 THEN [r |-> NegInf, path |-> p]
               ELSE _dfs_first_reward(T, Append(p, vc[1]))

\* MCTS._dfs_max_reward(path): (reward, path), -inf when no terminal node below
RECURSIVE _dfs_max_reward(_, _)
_dfs_max_reward(T, p) ==
  LET cur == T[Last(p)]
  IN  IF cur.is_terminal THEN [r |-> cum_reward(T, Tail(p)), path |-> p]
      ELSE IF cur.children = None THEN [r |-> NegInf, path |-> p]
      ELSE LET vc == visited_children(T, Last(p))
           IN  IF Len(vc) = 0 THEN [r |-> NegInf, path |-> p]
               ELSE LET rs == [i \in 1..Len(vc) |->
                                 _dfs_max_reward(T, Append(p, vc[i]))]
                    IN  rs[ArgMaxFirst([i \in 1..Len(vc) |-> rs[i].r])]

\* sorted(all_paths, key=reward, reverse=True): the position element i of s gets;
\* the sort is stable, equal rewards keep their order
SortedPosition(s, i) ==
  Cardinality({j \in 1..Len(s) : s[j].r > s[i].r})
    + Cardinality({j \in 1..(i - 1) : s[j].r = s[i].r}) + 1

\* the pairs of s whose reward is not -inf, in order
RECURSIVE ValidPaths(_)
ValidPaths(s) ==
  IF s = <<>> THEN <<>>
  ELSE (IF s[1].r # NegInf THEN <<s[1]>> ELSE <<>>) \o ValidPaths(Tail(s))

\* MCTS._dfs_next_reward(path): (reward, path); a terminal node answers with its
\* own path, an inner node with the second entry of its children's sorted
\* answers, -inf when fewer than two of them are valid
RECURSIVE _dfs_next_reward(_, _)
_dfs_next_reward(T, p) ==
  LET cur == T[Last(p)]
  IN  IF cur.is_terminal THEN [r |-> cum_reward(T, Tail(p)), path |-> p]
      ELSE IF cur.children = None THEN [r |-> NegInf, path |-> p]
      ELSE LET vc == visited_children(T, Last(p))
           IN  IF Len(vc) = 0 THEN [r |-> NegInf, path |-> p]
               ELSE LET all_paths == ValidPaths([i \in 1..Len(vc) |->
                                        _dfs_next_reward(T, Append(p, vc[i]))])
                    IN  IF Len(all_paths) >= 2
                        THEN all_paths[CHOOSE i \in 1..Len(all_paths) :
                                         SortedPosition(all_paths, i) = 2]
                        ELSE [r |-> NegInf, path |-> p]

\* self._follow_reward_iter[1::-1]: the second node (when there is one), then
\* the first
FollowSlice(p) == IF Len(p) >= 2 THEN <<p[2], p[1]>> ELSE p

\* what search() and __call__ hand out for the final tree T
MCTSResult(T) ==
  LET fm == follow_max(T, root, <<>>)
      mx == _dfs_max_reward(T, <<root>>)
      nx == _dfs_next_reward(T, <<root>>)
      _output_iter == IF mx.r = NegInf THEN None ELSE Some(mx.path)
      _next_reward_iter == IF nx.r = NegInf THEN None ELSE Some(nx.path)
  IN  [terminal_state    |-> IF _output_iter = None THEN None
                             ELSE T[Last(Val(_output_iter))].state,
       cum_reward        |-> mx.r,
       trace_of_nodes    |-> _output_iter,
       next_cum_reward   |-> nx.r,
       next_reward_iter  |-> _next_reward_iter,
       follow_cum_reward |-> cum_reward(T, FollowSlice(fm.path)),
       follow            |-> Some(fm.path)]

NoResult ==
  [terminal_state |-> None, cum_reward |-> NegInf, trace_of_nodes |-> None,
   next_cum_reward |-> NegInf, next_reward_iter |-> None,
   follow_cum_reward |-> NegInf, follow |-> None]

(* ----------------------- browser, retained paths ----------------------- *)
\* PlaywrightManager.go_to_homepage left out: the browser stays where it is
go_to_homepage_skipped(b) == b

\* PlaywrightManager.go_to_homepage: the browser is at the home page again
go_to_homepage(b) == <<>>

\* BrowserWorldModel.execute_browser_action: the task's actions run in the browser
execute_browser_action(b, action) == Append(b, action.task)

\* copy.deepcopy(path): the nodes of the path as they are now, detached from
\* the tree
deepcopy(T, p) == [i \in 1..Len(p) |-> T[p[i]]]

\* search() retaining every path, also one that ends on a terminal node
RetainPath_always(trace, T, p) == Append(trace, deepcopy(T, p))

\* search(): `if not path[-1].is_terminal: trace_in_each_iter.append(deepcopy(path))`
RetainPath(trace, T, p) ==
  IF ~T[Last(p)].is_terminal THEN Append(trace, deepcopy(T, p)) ELSE trace

(* ------------------------------- history ------------------------------- *)
\* what an _expand call on a node of depth d consumed, as log entries
Events(used, d) ==
  (IF used.step = "skipped" THEN {} ELSE {<<"step", used.step>>})
    \cup (IF used.reward = "skipped" THEN {} ELSE {<<"reward", used.reward>>})
    \cup (IF used.reward2 = "skipped" THEN {} ELSE {<<"reward", used.reward2>>})
    \cup (IF used.actions.kind = "skipped" THEN {}
          ELSE {<<"get_actions",
                  IF used.actions.kind \in {"ranked", "complete"}
                       /\ Len(used.actions.ranks) = 0
                  THEN "none" ELSE used.actions.kind,
                  IF d < depth_limit THEN "above limit" ELSE "at limit">>})

NoExpand ==
  [node |-> 0, step |-> "skipped", reward |-> "skipped", actions |-> Skipped,
   reward2 |-> "skipped", flag |-> FALSE, result_child |-> FALSE, raised |-> FALSE,
   by |-> "none"]

\* the record of an _expand call made by `by` ("iterate" or "_simulate")
Expanded(r, by) ==
  [node |-> r.used.node, step |-> r.used.step, reward |-> r.used.reward,
   actions |-> r.used.actions, reward2 |-> r.used.reward2, flag |-> r.flag,
   result_child |-> r.result_child, raised |-> r.raised, by |-> by]

\* hist grown to the nodes of T
HistFor(T, h) ==
  h \o [i \in 1..(Len(T) - Len(h)) |-> [paths |-> 0, sum |-> 0]]

InPath(p, n) == \E i \in 1..Len(p) : p[i] = n

\* hist after the path p of the tree T was backpropagated with reward r: a path
\* counts for the nodes on it that have a state (the others are skipped)
HistAfter(T, h, p, r) ==
  [n \in 1..Len(h) |->
     IF InPath(p, n) /\ T[n].state # None
     THEN [paths |-> h[n].paths + 1, sum |-> h[n].sum + r]
     ELSE h[n]]

(* ------------------------------- actions ------------------------------- *)
\* search() up to its loop, for an engine configured with one of the given
\* n_iters and depth_limit values
Start(iters, limits) ==
  /\ nodes = <<MCTSNode(<<>>, Some(init_state), None, 0, FastRewardDefault)>>
  /\ n_iters \in iters
  /\ depth_limit \in limits
  /\ iter = 0
  /\ pc = "loop"
  /\ stack = <<>>
  /\ path = <<>>
  /\ sim_node = 0
  /\ err = "none"
  /\ result = NoResult
  /\ last_expand = NoExpand
  /\ hist = <<[paths |-> 0, sum |-> 0]>>
  /\ mat_iter = FALSE
  /\ mat_iters = 0
  /\ failed = {}
  /\ browser = <<>>
  /\ trace_in_each_iter = <<>>
  /\ homepage_resets = 0
  /\ oracle_log = {}

(* ------------------ BrowserMCTSWrapper.generate_dpo_pairs ---------------- *)
\* a TaskWithActions as the Actor proposes it; actions_to_be_performed is a
\* list the Actor fills and may be empty
TaskWithActions ==
  [id : 1..MaxActions, description : {"open", "search"},
   actions_to_be_performed : {<<>>, <<"click">>}]

\* a BrowserAction as _rank_actions builds it
RankedBrowserActions == [task_with_action : TaskWithActions, rank : {TopRank}]

\* the actions of the children of one node of the winning path, in list order,
\* and which of the children is the next node of the path
PathChoices ==
  {[children |-> cs, next |-> k] :
     cs \in UNION {[1..m -> RankedBrowserActions] : m \in 1..MaxActions},
     k \in 1..MaxActions}

\* the winning path these choices describe: node i+1 is the child choices[i].next
\* of node i; `state` is the position, standing for the node's own BrowserState;
\* `children` lists the actions of the node's children; the last node is
\* terminal and has no children
TraceOfNodes(choices) ==
  [i \in 1..(Len(choices) + 1) |->
     [state    |-> i,
      action   |-> IF i = 1 THEN None
                   ELSE Some(choices[i-1].children[choices[i-1].next]),
      children |-> IF i <= Len(choices) THEN Some(choices[i].children)
                   ELSE None]]

\* the MCTSResult values generate_dpo_pairs is called with, reduced to
\* trace_of_nodes: None when no terminal path exists, else a path from the root
DpoResults ==
  {[trace_of_nodes |-> None]} \cup
  {[trace_of_nodes |-> Some(TraceOfNodes(c))] :
     c \in {c \in UNION {[1..k -> PathChoices] : k \in 0..(MaxTrace - 1)} :
              \A i \in DOMAIN c : c[i].next <= Len(c[i].children)}}

\* DPOAction(description=..., action=...actions_to_be_performed[0])
DPOAction(a) ==
  [description |-> a.task_with_action.description,
   action      |-> a.task_with_action.actions_to_be_performed[1]]

\* DPOPair(state=DPOState(dom, objective), winning_action, losing_action)
DPOPair(node, winning_action, child_action) ==
  [state          |-> node.state,
   winning_action |-> DPOAction(winning_action),
   losing_action  |-> DPOAction(child_action)]

\* the children of trace[i] the inner loop builds a pair for: those whose action
\* is not equal (as BrowserAction) to the action of trace[i+1]
LosingActions(trace, i) ==
  LET cs == IF trace[i].children = None THEN <<>> ELSE Val(trace[i].children)
      Differs(a) == a # Val(trace[i+1].action)
  IN  SelectSeq(cs, Differs)

\* the pairs the loop appends from position i on
RECURSIVE PairsFrom(_, _)
PairsFrom(trace, i) ==
  IF i >= Len(trace) THEN <<>>
  ELSE LET lose == LosingActions(trace, i)
       IN  [j \in 1..Len(lose) |->
              DPOPair(trace[i], Val(trace[i+1].action), lose[j])]
             \o PairsFrom(trace, i + 1)

\* subscripting actions_to_be_performed[0] of an empty list raises IndexError
IndexErrorAt(trace, i) ==
  LET lose == LosingActions(trace, i)
      Empty(a) == a.task_with_action.actions_to_be_performed = <<>>
  IN  /\ lose # <<>>
      /\ \/ Empty(Val(trace[i+1].action))
         \/ \E j \in 1..Len(lose) : Empty(lose[j])

\* generate_dpo_pairs(result): the list it returns, or that it raised
generate_dpo_pairs(r) ==
  IF r.trace_of_nodes = None \/ Len(Val(r.trace_of_nodes)) < 2
  THEN [raised |-> FALSE, pairs |-> <<>>]
  ELSE LET trace == Val(r.trace_of_nodes)
       IN  IF \E i \in 1..(Len(trace) - 1) : IndexErrorAt(trace, i)
           THEN [raised |-> TRUE, pairs |-> <<>>]
           ELSE [raised |-> FALSE, pairs |-> PairsFrom(trace, 1)]

\* no call of generate_dpo_pairs is under way
DpoIdle == [phase |-> "idle", result |-> [trace_of_nodes |-> None], pairs |-> <<>>]

\* generate_dpo_pairs has been called with result r
DpoCall(r) == [phase |-> "called", result |-> r, pairs |-> <<>>]

\* the call runs to its return or to the exception
GenerateDpoPairs ==
  /\ dpo.phase = "called"
  /\ LET out == generate_dpo_pairs(dpo.result)
     IN  dpo' = [dpo EXCEPT !.phase = IF out.raised THEN "raised" ELSE "returned",
                            !.pairs = out.pairs]
  /\ UNCHANGED <<mcts_vars, wm>>

Init == Start(0..MaxIters, 1..MaxDepthLimit) /\ wm = WmIdle /\ dpo = DpoIdle

\* the deep configuration: few iterations, a larger depth_limit
InitDeep == Start(1..DeepIters, {DeepDepthLimit}) /\ wm = WmIdle /\ dpo = DpoIdle

\* one call of BrowserWorldModel.step on its own, the engine standing still
InitStep ==
  /\ Start({0}, {1})
  /\ wm \in {WmCall(st, a) : st \in WmStates, a \in BrowserActions}
  /\ dpo = DpoIdle

\* the frame of a _select(self.root) call at its entry: the locals path, node and
\* whether result_child is bound; `entered` is history, the tree at the call
Called(T) == [path |-> <<>>, node |-> root, bound |-> FALSE, entered |-> T]

\* search(): the next iteration starts; go_to_homepage, then iterate(root)
\* enters _select(root)
Iterate ==
  /\ pc = "loop"
  /\ iter < n_iters
  /\ pc' = "select"
  /\ stack' = <<Called(nodes)>>
  /\ path' = <<>>
  /\ mat_iter' = FALSE
  /\ browser' = go_to_homepage(browser)
  /\ homepage_resets' = homepage_resets + 1
  /\ oracle_log' = {}
  /\ UNCHANGED <<wm, dpo>>
  /\ UNCHANGED <<nodes, n_iters, depth_limit, iter, sim_node, err, result,
                 last_expand, hist, mat_iters, failed, trace_in_each_iter>>

\* the innermost _select call: locals of its frame
Top == Last(stack)

\* _select's loop test: the node just appended ends the walk
SelectStops(T, n) ==
  IF T[n].children = None THEN TRUE
  ELSE IF Len(Val(T[n].children)) = 0 THEN TRUE
  ELSE _is_terminal_with_depth_limit(T[n])

Abort(e) ==
  /\ pc' = "aborted"
  /\ err' = e

\* _select appends its node and returns the path: to iterate() from the outermost
\* call, to the except handler of the calling _select (which drops it) otherwise
SelectReturn ==
  /\ pc = "select"
  /\ SelectStops(nodes, Top.node)
  /\ IF Len(stack) = 1
     THEN /\ path' = Append(Top.path, Top.node)
          /\ stack' = <<>>
          /\ pc' = IF _is_terminal_with_depth_limit(nodes[Top.node])
                   THEN "backprop" ELSE "expand"
     ELSE /\ stack' = SubSeq(stack, 1, Len(stack) - 1)
          /\ UNCHANGED <<path, pc>>
  /\ UNCHANGED <<wm, dpo>>
  /\ UNCHANGED <<nodes, n_iters, depth_limit, iter, sim_node, err, result,
                 last_expand, hist, mat_iter, mat_iters, failed, browser,
                 trace_in_each_iter, homepage_resets, oracle_log>>

\* _select appends its node, picks a child with _uct_select and replays the
\* child's action with world_model.step (at most two attempts):
\*   a1, a2  what the two attempts do
SelectChild ==
  /\ pc = "select"
  /\ ~SelectStops(nodes, Top.node)
  /\ LET p1 == Append(Top.path, Top.node)
         top == Len(stack)
     IN
     IF UctSelectRaises(nodes, Top.node)
     THEN /\ Abort("ValueError: math domain error")
          /\ UNCHANGED <<nodes, stack, browser>>
     ELSE
       LET child == _uct_select(nodes, Top.node)
       IN  \E a1 \in StepOutcomes, a2 \in StepOutcomes :
             IF a1 = "ok" \/ a2 = "ok"
             THEN \* flag, result_child = new_state, {}
                  /\ stack' = [stack EXCEPT ![top] =
                                 [Top EXCEPT !.path = p1, !.node = child, !.bound = TRUE]]
                  /\ browser' = execute_browser_action(browser,
                                                       Val(nodes[child].action))
                  /\ UNCHANGED <<nodes, pc, err>>
             ELSE IF ~Top.bound
             THEN \* `not result_child` reads a local that was never assigned
                  /\ Abort("UnboundLocalError")
                  /\ UNCHANGED <<nodes, stack, browser>>
             ELSE \* node.N = 1000, then _select(self.root), its result dropped
                  /\ Len(stack) < MaxRecursion
                  /\ nodes' = [nodes EXCEPT ![child].N = SelectFailN]
                  /\ stack' = Append(
                       [stack EXCEPT ![top] =
                          [Top EXCEPT !.path = p1, !.node = child, !.bound = TRUE]],
                       Called([nodes EXCEPT ![child].N = SelectFailN]))
                  /\ UNCHANGED <<pc, err, browser>>
  /\ UNCHANGED <<wm, dpo>>
  /\ UNCHANGED <<n_iters, depth_limit, iter, path, sim_node, result,
                 last_expand, hist, mat_iter, mat_iters, failed,
                 trace_in_each_iter, homepage_resets, oracle_log>>

\* the history an _expand call r leaves
Recorded(r, by) ==
  /\ last_expand' = Expanded(r, by)
  /\ hist' = HistFor(r.nodes, hist)
  /\ mat_iter' = (mat_iter \/ (r.used.step = "ok" /\ nodes[r.used.node].depth >= 1))
  /\ failed' = IF r.used.step = "raise" THEN failed \cup {r.used.node} ELSE failed
  /\ oracle_log' = oracle_log \cup Events(r.used, nodes[r.used.node].depth)
  /\ browser' = IF r.used.step = "ok"
                THEN execute_browser_action(browser, Val(nodes[r.used.node].action))
                ELSE browser

\* iterate(): the selected leaf is neither terminal nor depth-limited: _expand it
Expand ==
  /\ pc = "expand"
  /\ \E so \in StepOutcomes, ro \in RewardOutcomes, ao \in GetActionsOutcomes,
        ro2 \in RewardOutcomes :
       LET r == _expand(nodes, Last(path), so, ro, ao, ro2)
       IN  /\ nodes' = r.nodes
           /\ Recorded(r, "iterate")
           /\ IF r.raised
              THEN Abort("OracleError") /\ UNCHANGED sim_node
              ELSE /\ pc' = "simulate"
                   /\ sim_node' = Last(path)
                   /\ UNCHANGED err
  /\ UNCHANGED <<wm, dpo>>
  /\ UNCHANGED <<n_iters, depth_limit, iter, stack, path, result, mat_iters,
                 trace_in_each_iter, homepage_resets>>

\* the number of negative entries of fast_rewards
Negatives(T, ch) == Cardinality({i \in 1..Len(ch) : T[ch[i]].fast_reward < 0})

\* _simulate's loop after the `if node.state is None` block, on the tree T with
\* the path p: return, raise, or descend to the child np.argmax picks
SimulateRest(T, p, result_child) ==
  LET node == T[sim_node]
  IN
  /\ nodes' = T
  /\ path' = p
  /\ IF _is_terminal_with_depth_limit(node) \/ ~result_child
     THEN pc' = "backprop" /\ UNCHANGED <<sim_node, err>>
     ELSE IF node.children = None
     THEN Abort("TypeError: 'NoneType' object is not iterable") /\ UNCHANGED sim_node
     ELSE LET ch == Val(node.children)
          IN  IF Negatives(T, ch) >= NegativeChildrenAbort
              THEN pc' = "backprop" /\ UNCHANGED <<sim_node, err>>
              ELSE IF Len(ch) = 0
              THEN Abort("ValueError: argmax of an empty sequence")
                   /\ UNCHANGED sim_node
              ELSE /\ sim_node' =
                        ch[ArgMaxFirst([i \in 1..Len(ch) |-> T[ch[i]].fast_reward])]
                   /\ UNCHANGED <<pc, err>>

\* one pass of _simulate's loop at a node whose state is materialized
SimulateVisited ==
  /\ pc = "simulate"
  /\ nodes[sim_node].state # None
  /\ SimulateRest(nodes, path, TRUE)
  /\ UNCHANGED <<wm, dpo>>
  /\ UNCHANGED <<n_iters, depth_limit, iter, stack, result, last_expand, hist,
                 mat_iter, mat_iters, failed, browser, trace_in_each_iter,
                 homepage_resets, oracle_log>>

\* one pass of _simulate's loop at a node whose state is None: _expand it first,
\* append it to the path when flag is true (the un-awaited self._simulate(path)
\* of the else branch never runs)
SimulateExpand ==
  /\ pc = "simulate"
  /\ nodes[sim_node].state = None
  /\ \E so \in StepOutcomes, ro \in RewardOutcomes, ao \in GetActionsOutcomes,
        ro2 \in RewardOutcomes :
       LET r == _expand(nodes, sim_node, so, ro, ao, ro2)
       IN  /\ Recorded(r, "_simulate")
           /\ IF r.raised
              THEN /\ Abort("OracleError")
                   /\ nodes' = r.nodes
                   /\ UNCHANGED <<sim_node, path>>
              ELSE SimulateRest(r.nodes,
                                IF r.flag THEN Append(path, sim_node) ELSE path,
                                r.result_child)
  /\ UNCHANGED <<wm, dpo>>
  /\ UNCHANGED <<n_iters, depth_limit, iter, stack, result, mat_iters,
                 trace_in_each_iter, homepage_resets>>

\* iterate(): _back_propagate(path); search() then retains a copy of the path
\* when its last node is not terminal, and counts the iteration
BackPropagate ==
  /\ pc = "backprop"
  /\ nodes' = _back_propagate(nodes, path)
  /\ hist' = HistAfter(nodes, hist, path, nodes[Last(path)].reward)
  /\ iter' = iter + 1
  /\ mat_iters' = mat_iters + (IF mat_iter THEN 1 ELSE 0)
  /\ pc' = "loop"
  /\ trace_in_each_iter' =
       RetainPath(trace_in_each_iter, _back_propagate(nodes, path), path)
  /\ UNCHANGED <<wm, dpo>>
  /\ UNCHANGED <<n_iters, depth_limit, stack, path, sim_node, err, result,
                 last_expand, mat_iter, failed, browser, homepage_resets,
                 oracle_log>>

\* result extraction that first sends the browser back to the home page
Extract_resetting_browser ==
  /\ pc = "loop"
  /\ iter = n_iters
  /\ ~follow_max(nodes, root, <<>>).raised
  /\ result' = MCTSResult(nodes)
  /\ pc' = "done"
  /\ browser' = go_to_homepage(browser)
  /\ UNCHANGED <<wm, dpo>>
  /\ UNCHANGED <<nodes, n_iters, depth_limit, iter, stack, path, sim_node, err,
                 last_expand, hist, mat_iter, mat_iters, failed,
                 trace_in_each_iter, homepage_resets, oracle_log>>

\* search() after the last iteration and __call__: the result is extracted
Extract ==
  /\ pc = "loop"
  /\ iter = n_iters
  /\ IF follow_max(nodes, root, <<>>).raised
     THEN Abort("TypeError: 'NoneType' object is not iterable (follow_max)")
          /\ UNCHANGED result
     ELSE /\ result' = MCTSResult(nodes)
          /\ pc' = "done"
          /\ UNCHANGED err
  /\ UNCHANGED <<wm, dpo>>
  /\ UNCHANGED <<nodes, n_iters, depth_limit, iter, stack, path, sim_node,
                 last_expand, hist, mat_iter, mat_iters, failed, browser,
                 trace_in_each_iter, homepage_resets, oracle_log>>

Next ==
  \/ Iterate
  \/ SelectReturn
  \/ SelectChild
  \/ Expand
  \/ SimulateVisited
  \/ SimulateExpand
  \/ BackPropagate
  \/ Extract

Spec == Init /\ [][Next]_vars

NextStep == WmSubAction \/ WmObserve

SpecStep == InitStep /\ [][NextStep]_vars

\* one call of BrowserWorldModel.step for each type of elementary action
InitDispatch ==
  /\ Start({0}, {1})
  /\ wm \in {WmCall(init_state, a) : a \in SingleActions}
  /\ dpo = DpoIdle

SpecDispatch == InitDispatch /\ [][NextStep]_vars

SpecDeep == InitDeep /\ [][Next]_vars

\* one call of generate_dpo_pairs on its own, the engine standing still
InitDpo ==
  /\ Start({0}, {1})
  /\ wm = WmIdle
  /\ dpo \in {DpoCall(r) : r \in DpoResults}

NextDpo == GenerateDpoPairs

SpecDpo == InitDpo /\ [][NextDpo]_vars

(* ======================================================================= *)
(* The claims                                                              *)
(* ======================================================================= *)
Ids == 1..Len(nodes)

HasChildren(T, n) == T[n].children # None /\ Len(Val(T[n].children)) > 0

ChildrenOf(T, n) == {Val(T[n].children)[i] : i \in 1..Len(Val(T[n].children))}

\* the step being taken is a call of _expand, recorded in last_expand'
ExpandStep ==
  \/ pc = "expand"
  \/ pc = "simulate" /\ nodes[sim_node].state = None

\* get_actions was called by the latest _expand and returned the empty list
GotNoActions(e) ==
  e.actions.kind \in {"ranked", "complete"} /\ Len(e.actions.ranks) = 0

C2_NoGetActionsAtDepthLimit ==
  /\ \A n \in Ids :
       nodes[n].depth >= depth_limit => _is_terminal_with_depth_limit(nodes[n])
  /\ last_expand.actions.kind # "skipped"
       => nodes[last_expand.node].depth < depth_limit

\* C3: for every node, N is the number of backpropagated paths the node was part
\* of (with a state) and Q is the arithmetic mean of the rewards backpropagated
\* through it, 0 while N == 0.
C3_VisitValueConsistency ==
  \A n \in Ids :
    /\ nodes[n].N = hist[n].paths
    /\ Q(nodes[n]) = IF hist[n].paths = 0 THEN Zero
                     ELSE Norm(<<hist[n].sum, hist[n].paths>>)

\* C4 as stated: root.N equals the number of completed iterations that
\* materialized a state at depth >= 1.
C4_RootCountsMaterializingIterations ==
  pc \in {"loop", "done"} => nodes[root].N = mat_iters

\* C4 as amended: root.N equals the number of completed iterations, whether or
\* not they materialized a state below the root.
C4_RootCountsIterations == nodes[root].N = iter

\* C4, its case: two iterations are complete, one of them materialized nothing
C4_Witness ==
  /\ pc = "loop"
  /\ iter = 2
  /\ mat_iters = 1
  /\ nodes[root].N = 2

\* C5: when world_model.step raises while _expand materializes a node whose
\* state is None, _expand does not raise and returns (False, False); the node
\* ends with fast_reward == -1, state None and no children; no other node is
\* changed and none is created.
C5_StepFailureContained ==
  [][(ExpandStep /\ last_expand'.step = "raise")
       => LET n == last_expand'.node
          IN  /\ ~last_expand'.raised
              /\ ~last_expand'.flag
              /\ ~last_expand'.result_child
              /\ nodes'[n].fast_reward = FastRewardDead
              /\ nodes'[n].state = None
              /\ nodes'[n].children = None
              /\ Len(nodes') = Len(nodes)
              /\ \A m \in Ids : m # n => nodes'[m] = nodes[m]
              /\ nodes'[n] = [nodes[n] EXCEPT !.fast_reward = FastRewardDead]]_vars

\* C5, its case: the latest _expand call met a raising step on a ranked child
C5_Witness ==
  /\ last_expand.step = "raise"
  /\ ~last_expand.raised
  /\ nodes[last_expand.node].state = None
  /\ nodes[last_expand.node].fast_reward = FastRewardDead
  /\ nodes[last_expand.node].reward > 0

\* C6: after the expansion of a child has failed, the search is not aborted when
\* the failed child's action fails again the next time it is tried (and its
\* siblings get selected later).
C6_SearchContinuesAfterFailedExpansion ==
  ~(/\ pc = "aborted"
    /\ err = "UnboundLocalError"
    /\ _uct_select(nodes, Top.node) \in failed)

\* C7: if an oracle raises inside get_actions or reward during an expansion, the
\* node gets no children and the exception does not escape the iteration.
C7_OracleFailureContained ==
  ("raise" \in {last_expand.actions.kind, last_expand.reward, last_expand.reward2})
    => /\ ~HasChildren(nodes, last_expand.node)
       /\ err \notin {"OracleError", "TypeError: 'NoneType' object is not iterable"}

\* C8: if get_actions returns an empty list for a non-terminal node with a
\* materialized state, _expand sets the node's children to the empty sequence
\* and returns without raising.
C8_EmptyActionsGiveEmptyChildren ==
  [][(ExpandStep /\ GotNoActions(last_expand'))
       => LET n == last_expand'.node
          IN  /\ ~last_expand'.raised
              /\ nodes'[n].state # None
              /\ ~nodes'[n].is_terminal
              /\ nodes'[n].children = Some(<<>>)
              /\ Len(nodes') = Len(nodes)]_vars

\* C8, its case: the latest _expand call got the empty list from get_actions
C8_Witness ==
  /\ GotNoActions(last_expand)
  /\ ~last_expand.raised
  /\ nodes[last_expand.node].children = Some(<<>>)

\* C9: when get_actions returns an empty list for the leaf chosen in an
\* iteration, the rollout does not descend, backpropagation runs and iterate
\* returns the path without raising.
C9_EmptyActionsAtLeafDoNotRaise ==
  (GotNoActions(last_expand) /\ path # <<>> /\ last_expand.node = Last(path))
    => err # "ValueError: argmax of an empty sequence"

\* some node of the tree is terminal
SomeTerminal == \E n \in Ids : nodes[n].is_terminal

\* the run got as far as result extraction
Extracting ==
  \/ pc = "done"
  \/ pc = "aborted"
       /\ err = "TypeError: 'NoneType' object is not iterable (follow_max)"

\* C10: if no terminal node is in the final tree, result extraction raises no
\* exception and the result has terminal_state None and no max_reward trajectory.
C10_NoTerminalIsANormalOutcome ==
  (Extracting /\ ~SomeTerminal)
    => /\ pc = "done"
       /\ result.terminal_state = None
       /\ result.trace_of_nodes = None

\* the path from the root to node n: n's ancestors, oldest first, then n
RECURSIVE PathTo(_, _)
PathTo(T, n) ==
  IF T[n].parent = 0 THEN <<n>> ELSE Append(PathTo(T, T[n].parent), n)

\* the root-to-terminal paths of the tree
TerminalPaths == {PathTo(nodes, t) : t \in {n \in Ids : nodes[n].is_terminal}}

\* C11: after the search the max_reward output is None exactly when the tree
\* has no terminal node; otherwise it is a root-to-terminal path through
\* materialized nodes whose cumulative reward (the rewards after the root,
\* summed) is at least that of every root-to-terminal path, and cum_reward is
\* that sum.
C11_MaxRewardIsBestTerminalPath ==
  pc = "done" =>
    IF ~SomeTerminal
    THEN result.trace_of_nodes = None /\ result.terminal_state = None
    ELSE /\ result.trace_of_nodes # None
         /\ LET p == Val(result.trace_of_nodes)
            IN  /\ p \in TerminalPaths
                /\ p[1] = root
                /\ \A i \in 1..Len(p) : nodes[p[i]].state # None
                /\ result.cum_reward = cum_reward(nodes, Tail(p))
                /\ result.terminal_state = nodes[Last(p)].state
                /\ \A q \in TerminalPaths :
                     cum_reward(nodes, Tail(q)) <= result.cum_reward

\* C11, its case: the tree has two terminal paths of different cumulative
\* reward, the better one under a later child of the root, and it is the output
C11_Witness ==
  /\ pc = "done"
  /\ \E q \in TerminalPaths :
       /\ cum_reward(nodes, Tail(q)) < result.cum_reward
       /\ Len(q) >= 2
       /\ q[2] < Val(result.trace_of_nodes)[2]

\* path p can stand second when the root-to-terminal paths are ordered by
\* cumulative reward, highest first
SecondHighest(p) ==
  /\ p \in TerminalPaths
  /\ \E q \in TerminalPaths \ {p} :
       cum_reward(nodes, Tail(q)) >= cum_reward(nodes, Tail(p))
  /\ Cardinality({q \in TerminalPaths \ {p} :
                    cum_reward(nodes, Tail(q)) > cum_reward(nodes, Tail(p))}) <= 1

\* C12: when the final tree has at least two distinct root-to-terminal paths,
\* the next_reward extraction returns the path with the second-highest
\* cumulative reward among all root-to-terminal paths of the tree.
C12_NextRewardIsSecondBest ==
  (pc = "done" /\ Cardinality(TerminalPaths) >= 2)
    => /\ result.next_reward_iter # None
       /\ SecondHighest(Val(result.next_reward_iter))

\* C13: the next_reward extraction returns no result whenever fewer than two
\* distinct root-to-terminal paths exist; whenever it returns a path, the path
\* starts at the root, ends at a terminal node and differs from the max_reward
\* path.
C13_NextRewardNeedsTwoPaths ==
  pc = "done" =>
    /\ Cardinality(TerminalPaths) < 2 => result.next_reward_iter = None
    /\ result.next_reward_iter # None
         => LET p == Val(result.next_reward_iter)
            IN  /\ p[1] = root
                /\ p \in TerminalPaths
                /\ result.trace_of_nodes # Some(p)

\* the walk p is the greedy walk of the tree: it starts at the root, each next
\* node has the highest raw reward among the visited children of the node
\* before it, no node but the last is terminal or without visited children,
\* and the last node is
GreedyWalk(p) ==
  LET stops(n) == nodes[n].is_terminal
                    \/ nodes[n].children = None
                    \/ Len(visited_children(nodes, n)) = 0
  IN  /\ Len(p) >= 1
      /\ p[1] = root
      /\ \A i \in 1..(Len(p) - 1) :
           /\ ~stops(p[i])
           /\ LET vc == visited_children(nodes, p[i])
              IN  /\ \E k \in 1..Len(vc) : vc[k] = p[i + 1]
                  /\ \A k \in 1..Len(vc) :
                       nodes[vc[k]].reward <= nodes[p[i + 1]].reward
      /\ stops(Last(p))

\* C14: the follow_max trajectory starts at the root; each following node is
\* the child with the highest raw reward among the visited children of the
\* previous node; the walk stops exactly at the first node that is terminal or
\* has no visited children (so it may end on a non-terminal node).
C14_FollowMaxIsGreedyWalk ==
  Extracting => /\ pc = "done"
                /\ result.follow # None
                /\ GreedyWalk(Val(result.follow))

\* the first iteration is complete and no other has started
AfterFirstIteration == iter = 1 /\ pc = "loop"

\* a materialization (world_model.step or the reward after it) raised in an
\* _expand call of the iteration
MaterializationFailed ==
  <<"step", "raise">> \in oracle_log \/ <<"reward", "raise">> \in oracle_log

\* C15 as stated (Scenario A): after one full iteration with depth_limit = 1
\* the iteration's path has length at most 2 and
\* _is_terminal_with_depth_limit is true for its last node.
C15_ScenarioA ==
  (AfterFirstIteration /\ depth_limit = 1)
    => /\ Len(path) <= 2
       /\ _is_terminal_with_depth_limit(nodes[Last(path)])

\* C15 as amended: after one full iteration with depth_limit = 1 the path
\* starts at the root and has length at most 2; _is_terminal_with_depth_limit
\* is true for its last node exactly when no materialization failed in the
\* iteration; when one failed the path is the (non-terminal) root alone.
C15_ScenarioA_UnlessMaterializationFailed ==
  (AfterFirstIteration /\ depth_limit = 1)
    => /\ Len(path) \in {1, 2}
       /\ path[1] = root
       /\ _is_terminal_with_depth_limit(nodes[Last(path)]) <=> ~MaterializationFailed
       /\ MaterializationFailed => path = <<root>> /\ ~nodes[root].is_terminal
       /\ Len(path) = 2 => nodes[path[2]].depth = 1 /\ nodes[path[2]].state # None

\* C15, its case: the first iteration with depth_limit = 1 materialized a
\* non-terminal child, which ends the path at the depth limit
C15_Witness ==
  /\ AfterFirstIteration
  /\ depth_limit = 1
  /\ Len(path) = 2
  /\ ~nodes[path[2]].is_terminal
  /\ nodes[path[2]].depth = depth_limit

\* every reward() call of the iteration returned (1.0, {}, True)
RewardAlwaysTerminal ==
  \A e \in oracle_log : e[1] = "reward" => e[2] = "terminal"

BeforeFirstBackpropagation == iter = 0 /\ pc = "backprop"

\* every reward() call of the iteration returned (-0.01, {}, False)
RewardNeverTerminal ==
  \A e \in oracle_log : e[1] = "reward" => e[2] = "nonterminal"

\* nothing cut the rollout short: every world_model.step succeeded and every
\* get_actions call on a node above the depth limit returned ranked candidates
RolloutUnhindered ==
  /\ <<"step", "raise">> \notin oracle_log
  /\ \A e \in oracle_log :
       (e[1] = "get_actions" /\ e[3] = "above limit") => e[2] = "ranked"

\* C17 as stated (Scenario C): with a Search Policy whose reward always returns
\* (-0.01, {}, False) and depth_limit = 3, after one iteration the path handed
\* to backpropagation has length exactly depth_limit + 1.
C17_ScenarioC ==
  (BeforeFirstBackpropagation /\ RewardNeverTerminal
     /\ depth_limit = DeepDepthLimit)
    => Len(path) = depth_limit + 1

\* C17 as amended: with such a Search Policy and depth_limit = 3 the path
\* handed to backpropagation has length at most depth_limit + 1; it has
\* exactly that length (the root plus one materialized node at each depth
\* 1..depth_limit) exactly when every world_model.step of the iteration
\* succeeded and every get_actions call above the depth limit returned ranked
\* candidates (not a lone stop action).
C17_ScenarioC_WhenRolloutUnhindered ==
  (BeforeFirstBackpropagation /\ RewardNeverTerminal
     /\ depth_limit = DeepDepthLimit)
    => /\ Len(path) <= depth_limit + 1
       /\ Len(path) = depth_limit + 1 <=> RolloutUnhindered
       /\ \A i \in 1..Len(path) :
            nodes[path[i]].depth = i - 1 /\ nodes[path[i]].state # None

\* C17, its case: the rollout of the first iteration went from the root down
\* to the depth limit 3, every reward being (-0.01, {}, False)
C17_Witness ==
  /\ BeforeFirstBackpropagation
  /\ depth_limit = DeepDepthLimit
  /\ <<"reward", "nonterminal">> \in oracle_log
  /\ RewardNeverTerminal
  /\ Len(path) = depth_limit + 1
  /\ nodes[Last(path)].depth = depth_limit
  /\ nodes[Last(path)].reward = RewardStep

\* C18 (Scenario D): when get_actions returns exactly one candidate whose
\* single elementary action is a stop action, the expansion produces a terminal
\* child node with no further children (at which the max_reward walk ends
\* without raising).
C18_ScenarioD ==
  (last_expand.actions.kind = "stop" /\ ~last_expand.raised)
    => /\ HasChildren(nodes, last_expand.node)
       /\ \E c \in ChildrenOf(nodes, last_expand.node) :
            /\ nodes[c].is_terminal
            /\ ~HasChildren(nodes, c)
       /\ _dfs_max_reward(nodes, <<root>>).r # NegInf

\* the step being taken is search() starting an iteration: go_to_homepage, then
\* iterate(root) entering _select
IterationStarts == pc = "loop" /\ pc' = "select"

\* C19: a search run performs exactly n_iters iterations (when none raises),
\* and before each call of iterate(root) the browser is reset to the home page,
\* no browser action being executed between the reset and the start of the
\* iteration's selection.
C19_ResetBeforeEachIteration ==
  [][/\ IterationStarts
          => /\ browser' = <<>>
             /\ homepage_resets' = iter + 1
             /\ stack' = <<Called(nodes)>>
     /\ (pc # "loop" /\ pc' = "select") => homepage_resets' = homepage_resets
     /\ pc' = "done"
          => /\ homepage_resets' = n_iters
             /\ iter' = n_iters]_vars

\* C19, its case: the second iteration starts its selection at the root with
\* the browser at the home page, after the first one had executed a task
C19_Witness ==
  /\ pc = "select"
  /\ homepage_resets = 2
  /\ stack = <<Called(nodes)>>
  /\ browser = <<>>
  /\ \E n \in Ids : nodes[n].depth = 1 /\ nodes[n].state # None

\* the step being taken ends an iteration: iterate() returns its path to search()
IterationEnds == pc = "backprop"

ExtractionStep == pc = "loop" /\ iter = n_iters

\* C21: result extraction after the last iteration makes no call to the World
\* Model or to the Search Policy (the browser stays where it is, no oracle is
\* consulted) and leaves every node of the tree unchanged.
C21_ExtractionTouchesNothing ==
  [][ExtractionStep
       => /\ nodes' = nodes
          /\ browser' = browser
          /\ homepage_resets' = homepage_resets
          /\ oracle_log' = oracle_log
          /\ last_expand' = last_expand]_vars

\* C21, its case: a result was extracted from a tree with a terminal node, the
\* browser still showing what the last iteration left
C21_Witness ==
  /\ pc = "done"
  /\ result.trace_of_nodes # None
  /\ browser # <<>>
  /\ Len(nodes) >= 3

\* the log entry e of a retried operation is what `retries` attempts allow:
\* attempts stop at the first success, failure means every attempt raised
RetriedAsAllowed(e, retries) ==
  /\ e.attempts <= retries
  /\ e.ok => /\ e.attempts >= 1
             /\ e.outs[e.attempts] = "ok"
             /\ \A j \in 1..(e.attempts - 1) : e.outs[j] = "raise"
  /\ ~e.ok => /\ e.attempts = retries
              /\ \A j \in 1..retries : e.outs[j] = "raise"

\* C22: step executes the elementary sub-actions in list order, attempting each
\* at most 3 times and stopping at its first success; when a sub-action fails
\* all its attempts, or the DOM, URL or screenshot cannot be re-acquired after
\* their own retries, step raises, executes no later sub-action and returns no
\* state; otherwise it returns a new state observed after the last sub-action.
C22_StepRetriesThenAborts ==
  wm.phase # "idle" =>
    LET n == Len(wm.action.subs)
        failed_sub == {k \in 1..Len(wm.tried) : ~wm.tried[k].ok}
        failed_obs == {k \in 1..Len(wm.observed) : ~wm.observed[k].ok}
    IN  /\ wm.executed = [k \in 1..Len(wm.executed) |-> k]
        /\ Len(wm.tried) <= n
        /\ \A k \in 1..Len(wm.tried) :
             /\ wm.tried[k].sub = k
             /\ wm.tried[k].attempts <= Retries
             /\ wm.tried[k].kind = "primitive"
                  => RetriedAsAllowed(wm.tried[k], Retries)
             /\ wm.tried[k].kind = "unsupported"
                  => ~wm.tried[k].ok /\ wm.tried[k].attempts = 0
        /\ \A k \in 1..Len(wm.observed) :
             RetriedAsAllowed(wm.observed[k], ObserveRetries)
        /\ wm.observed # <<>> => Len(wm.executed) = n
        /\ wm.phase = "raised" <=> (failed_sub \cup failed_obs) # {}
        /\ wm.phase = "raised"
             => /\ wm.new_state = None
                /\ failed_sub # {}
                     => /\ failed_sub = {Len(wm.tried)}
                        /\ Len(wm.executed) = Len(wm.tried) - 1
                        /\ wm.observed = <<>>
                /\ failed_obs # {} => failed_obs = {Len(wm.observed)}
        /\ wm.phase = "returned"
             => /\ Len(wm.executed) = n
                /\ [k \in 1..Len(wm.observed) |-> wm.observed[k].what]
                     = <<"dom", "url", "screenshot">>
                /\ wm.new_state # None
                /\ Val(wm.new_state).completed_tasks
                     = Append(wm.state.completed_tasks, wm.action.task)
        /\ wm.phase # "returned" => wm.new_state = None

\* C22, its case: the first sub-action succeeded at its second attempt, the
\* second one failed three times and step raised without observing anything
C22_Witness ==
  /\ wm.phase = "raised"
  /\ Len(wm.tried) = 2
  /\ wm.tried[1].ok
  /\ wm.tried[1].attempts = 2
  /\ wm.tried[2].kind = "primitive"
  /\ wm.tried[2].attempts = Retries
  /\ wm.executed = <<1>>
  /\ wm.observed = <<>>

\* the node n gets its state in the step being taken
Materialized(n) == nodes[n].state = None /\ nodes'[n].state # None

\* C23: states are never mutated in place: once a node's state is populated no
\* later operation changes any field of it, and the state step returns for a
\* node has the parent's completed_tasks plus the executed task while the
\* parent's state keeps its completed_tasks.
C23_StatesAreNeverMutated ==
  [][\A n \in Ids :
       /\ nodes[n].state # None => nodes'[n].state = nodes[n].state
       /\ Materialized(n)
            => Val(nodes'[n].state).completed_tasks
                 = Append(Val(nodes[nodes[n].parent].state).completed_tasks,
                          Val(nodes[n].action).task)]_vars

\* the winning path generate_dpo_pairs was given has at least two nodes
DpoPathGiven ==
  dpo.result.trace_of_nodes # None /\ Len(Val(dpo.result.trace_of_nodes)) >= 2

\* C24: generate_dpo_pairs, given a winning path of at least two nodes, emits
\* for every node of the path but the last exactly one pair per child whose
\* action differs from the action of the next node, and no other pair; every
\* pair has winning_action # losing_action; it returns the empty list when the
\* path is None or shorter than two nodes.
C24_OnePairPerLosingSibling ==
  dpo.phase \in {"returned", "raised"} =>
    /\ dpo.phase = "returned"
    /\ IF DpoPathGiven
       THEN LET trace == Val(dpo.result.trace_of_nodes)
            IN  /\ \A i \in 1..(Len(trace) - 1) :
                     Cardinality({k \in DOMAIN dpo.pairs : dpo.pairs[k].state = i})
                       = Cardinality({j \in DOMAIN Val(trace[i].children) :
                                        Val(trace[i].children)[j]
                                          # Val(trace[i+1].action)})
                /\ \A k \in DOMAIN dpo.pairs :
                     /\ dpo.pairs[k].state \in 1..(Len(trace) - 1)
                     /\ dpo.pairs[k].winning_action # dpo.pairs[k].losing_action
       ELSE dpo.pairs = <<>>

\* _back_propagate runs in the step being taken
BackPropagating == pc = "backprop" /\ pc' = "loop"

\* C25: the reward backpropagation spreads is always a value the reward
\* function produced for the last node of the path (1.0 or -0.01); the
\* fast_reward (rank) of a never-materialized node is never backpropagated.
C25_OnlyRewardValuesPropagated ==
  [][BackPropagating =>
       /\ nodes[Last(path)].reward \in {RewardTerminal, RewardStep}
       /\ nodes[Last(path)].state # None]_vars

\* the value _back_propagate(p) returns on the tree T: path[0].Q after the loop
BackPropagateReturns(T, p) == Q(_back_propagate(T, p)[p[1]])

\* node n after one update with reward r: Q = (Q*N + r)/(N+1), N = N+1
UpdatedOnce(node, r) ==
  [node EXCEPT !.Qval = Norm(<<Q(node)[1] * node.N + r * Q(node)[2],
                               Q(node)[2] * (node.N + 1)>>),
               !.N = node.N + 1]

\* C26: _back_propagate updates, for every path node whose state is not None,
\* Q to (Q*N + reward)/(N+1) and N to N+1 with the reward of the path's last
\* node, returns the updated root's Q, and leaves every other node and the
\* tree structure unchanged.
C26_BackPropagateUpdatesPathOnce ==
  [][BackPropagating =>
       /\ Len(nodes') = Len(nodes)
       /\ BackPropagateReturns(nodes, path) = Q(nodes'[root])
       /\ \A n \in Ids :
            nodes'[n] = IF InPath(path, n) /\ nodes[n].state # None
                        THEN UpdatedOnce(nodes[n], nodes[Last(path)].reward)
                        ELSE nodes[n]]_vars

\* every child of node n has been visited
AllChildrenVisited(T, n) ==
  \A i \in 1..Len(Val(T[n].children)) : T[Val(T[n].children)[i]].N > 0

\* the innermost _select call picks a child in the step being taken and goes on
\* (to the child, or into the failure handling for it)
SelectsChild ==
  /\ pc = "select" /\ pc' = "select"
  /\ ~SelectStops(nodes, Top.node)

\* the child that call picked
SelectedChild == stack'[Len(stack)].node

\* C27: when all children have N > 0, _uct_select returns the child that
\* maximizes Q + w_exp * sqrt(ln(parent.N) / (1 + child.N)), the first such
\* child in list order on ties.
C27_UctSelectMaximizes ==
  [][/\ pc = "select" /\ ~SelectStops(nodes, Top.node)
        /\ AllChildrenVisited(nodes, Top.node)
       => err' # "ValueError: math domain error"
     /\ SelectsChild /\ AllChildrenVisited(nodes, Top.node)
       => LET ch == Val(nodes[Top.node].children)
          IN  \E i \in 1..Len(ch) :
                /\ SelectedChild = ch[i]
                /\ \A j \in 1..Len(ch) : _uct(nodes, ch[j]) <= _uct(nodes, ch[i])
                /\ \A j \in 1..(i - 1) : _uct(nodes, ch[j]) < _uct(nodes, ch[i])]_vars

\* a walk has just moved to a second child that won on its UCT score, all its
\* siblings visited
C27_Witness ==
  /\ pc = "select" /\ stack # <<>>
  /\ Top.path # <<>>
  /\ LET par == Last(Top.path)
     IN  /\ HasChildren(nodes, par)
         /\ AllChildrenVisited(nodes, par)
         /\ Len(Val(nodes[par].children)) >= 2
         /\ Top.node = Val(nodes[par].children)[2]
         /\ nodes[Top.node].N < SelectFailN
         /\ _uct(nodes, Top.node) > _uct(nodes, Val(nodes[par].children)[1])

\* C28: a terminal node has no children (children is None or the empty list),
\* and is_terminal never becomes true on a node that has children.
C28_TerminalNodesAreLeaves ==
  [][\A n \in DOMAIN nodes' :
       nodes'[n].is_terminal =>
         /\ ~HasChildren(nodes', n)
         /\ (n \in Ids /\ ~nodes[n].is_terminal) => ~HasChildren(nodes, n)]_vars

\* both ways a node turns terminal have happened: in the materialization
\* (children None) and in the single-STOP branch (children the empty list)
C28_Witness ==
  /\ \E n \in Ids : nodes[n].is_terminal /\ nodes[n].children = None
  /\ \E n \in Ids : nodes[n].is_terminal /\ nodes[n].children = Some(<<>>)

\* C29: nodes are never removed from the tree: an attached child stays in its
\* parent's children list, a non-empty children list is never replaced by a
\* later expansion, and a materialized state is never reset to None.
C29_TreeOnlyGrows ==
  [][\A n \in Ids :
       /\ n \in DOMAIN nodes'
       /\ nodes'[n].parent = nodes[n].parent
       /\ HasChildren(nodes, n) => nodes'[n].children = nodes[n].children
       /\ nodes[n].state # None => nodes'[n].state # None]_vars

\* an expansion below the root has failed and a later one has attached
\* children, the root's children list standing since the first iteration
C29_Witness ==
  /\ iter >= 2
  /\ HasChildren(nodes, root)
  /\ failed # {}
  /\ \E n \in Ids : n # root /\ nodes[n].state # None /\ HasChildren(nodes, n)

\* C30: every iterate terminates: the selection walk and the rollout each
\* descend at most depth_limit levels, and the failure handling of _select does
\* not recurse without bound: no _select call is entered on a tree on which an
\* enclosing _select call, still waiting for it, was entered.
C30_WalksAreBounded ==
  /\ \A i \in DOMAIN stack :
       /\ Len(stack[i].path) = nodes[stack[i].node].depth
       /\ nodes[stack[i].node].depth <= depth_limit
  /\ pc = "simulate" => nodes[sim_node].depth <= depth_limit
  /\ \A i, j \in DOMAIN stack : i < j => stack[i].entered # stack[j].entered

\* C31: the Action Executor supports every action variant of the data model:
\* executing a task never fails with an unknown-action-type error, whatever the
\* types of its elementary actions, a stop action included.
C31_EveryActionTypeDispatched ==
  \A k \in 1..Len(wm.tried) :
    wm.tried[k].type \in ActionType
      => wm.tried[k].error # "Unknown action type"

\* the rollout moves from its node to one of the node's children in the step
\* being taken
Descends == pc = "simulate" /\ pc' = "simulate" /\ sim_node' # sim_node

ActionsTo(T, n) ==
  LET p == PathTo(T, n)
  IN  [i \in 1..(Len(p) - 1) |-> Val(T[p[i + 1]].action).task]

\* C33: within one iteration every action on the path is applied to the
\* browser exactly once: when _expand materializes a node's state, the actions
\* executed since the home-page reset are exactly the actions on the path from
\* the root to that node, in order.
C33_EachEdgeExecutedOnce ==
  [][\A n \in Ids : Materialized(n) => browser' = ActionsTo(nodes, n)]_vars

\* the sequence p holds no node twice
NoRepeats(p) == \A i, j \in 1..Len(p) : i # j => p[i] # p[j]

\* C34: no node occurs more than once in the path of an iteration, so the
\* backpropagation of one iteration raises the N of any node by at most 1,
\* also when the first materialization of the selected leaf fails and the
\* retry inside the rollout succeeds.
C34_PathHoldsEachNodeOnce ==
  [][/\ NoRepeats(path')
     /\ BackPropagating => \A n \in Ids : nodes'[n].N <= nodes[n].N + 1]_vars

\* C35: in every reachable tree a node whose state is None has N == 0 and so
\* reads Q == 0: a node that was never materialized is never counted as
\* visited, also after replay failures during selection.
C35_UnmaterializedNodesUnvisited ==
  \A n \in Ids : nodes[n].state = None => nodes[n].N = 0 /\ Q(nodes[n]) = Zero

\* C36: when world_model.step raises on both attempts while _select replays the
\* action of a selected child, no exception escapes _select and it still
\* returns a path starting at the root, whether the failing child is the first
\* node selected below the root or a deeper one.
C36_ReplayFailureContained ==
  [][pc = "select" =>
       /\ pc' # "aborted"
       /\ pc' \in {"expand", "backprop"} => path' # <<>> /\ path'[1] = root]_vars

\* _uct_select, called at node n of the tree T, falls through to the UCT formula
FallsThroughToUct(T, n) == HasChildren(T, n) /\ AllChildrenVisited(T, n)

\* C37: the UCT score is never evaluated for a child whose parent has N == 0:
\* whenever _uct_select falls through to the UCT formula at a node, that node
\* has N >= 1, so ln(parent.N) is defined in every reachable state.
C37_UctLogDefined ==
  [][/\ pc = "select" /\ ~SelectStops(nodes, Top.node)
        /\ FallsThroughToUct(nodes, Top.node)
       => /\ nodes[Top.node].N >= 1
          /\ err' # "ValueError: math domain error"
     /\ err' # "ValueError: math domain error"]_vars

\* a selection has used the UCT formula at a node below the root
C37_Witness ==
  /\ pc = "select" /\ stack # <<>>
  /\ Len(Top.path) >= 2
  /\ FallsThroughToUct(nodes, Last(Top.path))
  /\ nodes[Last(Top.path)].N >= 1

\* __call__: the fail_trace built from the retained paths, one (states, actions)
\* pair per path
fail_trace(traces) ==
  [k \in 1..Len(traces) |->
     [states  |-> [i \in 1..Len(traces[k]) |-> traces[k][i].state],
      actions |-> [i \in 1..(Len(traces[k]) - 1) |-> traces[k][i + 1].action]]]

\* C38: every node on the path handed to backpropagation has a materialized
\* state, and hence every state recorded in a fail_trace entry is non-None,
\* also for iterations in which the materialization of the selected leaf failed.
C38_BackpropagatedPathsMaterialized ==
  [][/\ BackPropagating
          => \A i \in 1..Len(path) : nodes[path[i]].state # None
     /\ LET ft == fail_trace(trace_in_each_iter')
        IN  \A k \in 1..Len(ft) : \A i \in 1..Len(ft[k].states) :
              ft[k].states[i] # None]_vars

\* C39: after any sequence of iterations no node of depth greater than
\* depth_limit has a materialized state, a non-zero N or a place on an
\* iteration's path: the World Model is never stepped into such a node.
C39_NothingBelowDepthLimit ==
  /\ \A n \in Ids :
       nodes[n].depth > depth_limit
         => /\ nodes[n].state = None
            /\ nodes[n].N = 0
            /\ ~InPath(path, n)
            /\ \A i \in DOMAIN stack : stack[i].node # n
  /\ pc = "simulate" => nodes[sim_node].depth <= depth_limit
  /\ last_expand # NoExpand => nodes[last_expand.node].depth <= depth_limit

\* a rollout has ended at the depth limit with children created one level
\* deeper, none of them touched
C39_Witness ==
  /\ pc = "loop" /\ iter >= 2
  /\ \E n \in Ids : nodes[n].depth > depth_limit
  /\ \E n \in Ids : nodes[n].depth = depth_limit /\ nodes[n].N >= 2

====
